---- MODULE Spec2Model ----
(***************************************************************************)
(* Model of the text chunkers of biblius/ledge (src/src/llm/chunk):        *)
(*   SlidingWindow          src/src/llm/chunk/sw.rs                        *)
(*   Recursive              src/src/llm/chunk/seq.rs                       *)
(*   SnappingSlidingWindow  src/src/llm/chunk/ssw.rs (Cursor, CursorRev)   *)
(*                                                                         *)
(* A text is a sequence of bytes.  A byte is a string: "a", "b", ".", ";"  *)
(* " " and "\n" are one-byte code points, "L2", "L3", "L4" are the lead    *)
(* bytes of 2-, 3- and 4-byte code points and "CB" is a continuation byte. *)
(* A &str of the program that points into the input is a range             *)
(* [s |-> first byte offset, e |-> offset past the last byte] (0-based,    *)
(* half open, as Rust's input[s..e]).                                      *)
(***************************************************************************)
EXTENDS Integers, Sequences, FiniteSets, TLC

VARIABLES
    input,        \* the text handed to chunk()
    size,         \* the chunker's size
    overlap,      \* the chunker's overlap
    delims,       \* Recursive: the delimiter list (a sequence of texts)
    skip_forward, \* SnappingSlidingWindow: skip_forward patterns
    skip_back,    \* SnappingSlidingWindow: skip_back patterns
    debug,        \* build profile: TRUE = debug assertions and overflow checks on
    pc,           \* position of the running chunk() call
    status,       \* "run", "ok" (returned Ok), "utf8" (returned Err), "panic"
    chunks,       \* the chunks pushed so far, as ranges
    loc           \* the local variables of the running chunk() call

vars == <<input, size, overlap, delims, skip_forward, skip_back, debug,
          pc, status, chunks, loc>>

config == <<input, size, overlap, delims, skip_forward, skip_back, debug>>

(***************************************************************************)
(* Bounds of the model.                                                    *)
(***************************************************************************)
MaxSwChars == 4
MaxSwSize == 3
MaxRecChars == 5
MaxRecSize == 3
MaxRecOverlap == 2
MaxSswChars == 5
MaxSswSize == 3
MaxSswOverlap == 2
MaxCursorChars == 7
MaxAdvances == 4
MaxAmt == 2

(***************************************************************************)
(* Text: code points, bytes, boundaries, whitespace.                       *)
(***************************************************************************)
Range(a, b) == [s |-> a, e |-> b]

RLen(r) == r.e - r.s

Min(a, b) == IF a <= b THEN a ELSE b

Max(a, b) == IF a >= b THEN a ELSE b

\* The UTF-8 encoding of a code point of the given width.
CodePoint(w) ==
    CASE w = 2 -> <<"L2", "CB">>
      [] w = 3 -> <<"L3", "CB", "CB">>
      [] w = 4 -> <<"L4", "CB", "CB", "CB">>

RECURSIVE Flatten(_)
Flatten(cs) == IF cs = <<>> THEN <<>> ELSE Head(cs) \o Flatten(Tail(cs))

\* All texts of at most n code points drawn from the alphabet A.
RECURSIVE TextsOfLen(_, _)
TextsOfLen(A, n) ==
    IF n = 0 THEN {<<>>}
    ELSE {c \o t : c \in A, t \in TextsOfLen(A, n - 1)}

Texts(A, n) == UNION {TextsOfLen(A, k) : k \in 0..n}

\* str::is_char_boundary: offset i of text t does not fall inside a code point.
is_char_boundary(t, i) ==
    \/ i = 0
    \/ i = Len(t)
    \/ (0 < i /\ i < Len(t) /\ t[i + 1] # "CB")

\* Rust's &t[a..b] succeeds (otherwise it panics).
SliceOk(t, a, b) ==
    /\ 0 <= a /\ a <= b /\ b <= Len(t)
    /\ is_char_boundary(t, a)
    /\ is_char_boundary(t, b)

\* The bytes of a range of t.
Bytes(t, r) == SubSeq(t, r.s + 1, r.e)

is_whitespace(b) == b \in {" ", "\n"}

RECURSIVE TrimStart(_)
TrimStart(t) ==
    IF t # <<>> /\ is_whitespace(Head(t)) THEN TrimStart(Tail(t)) ELSE t

RECURSIVE TrimEnd(_)
TrimEnd(t) ==
    IF t # <<>> /\ is_whitespace(t[Len(t)])
    THEN TrimEnd(SubSeq(t, 1, Len(t) - 1))
    ELSE t

\* str::trim
trim(t) == TrimEnd(TrimStart(t))

(***************************************************************************)
(* SlidingWindow (sw.rs).  Ranges of its chunks are offsets into the       *)
(* trimmed input.                                                          *)
(***************************************************************************)
\* The locals before chunk() has set any.
NoLoc == [none |-> TRUE]

\* SlidingWindow::new accepts overlap = size.
SlidingWindow_new_ok_Equal(sz, ov) == ~(ov > sz)

\* SlidingWindow::new accepts the parameters.
SlidingWindow_new_ok(sz, ov) == ~(ov >= sz)

\* chunk(), lines 32-48: trim, the two early returns, the loop's initial state.
SwEnter ==
    /\ pc = "sw_enter"
    /\ LET t == trim(input) IN
       IF t = <<>> THEN
            /\ chunks' = <<>>
            /\ pc' = "done" /\ status' = "ok"
            /\ loc' = loc
       ELSE IF Len(t) <= size + overlap THEN
            /\ chunks' = <<Range(0, Len(t))>>
            /\ pc' = "done" /\ status' = "ok"
            /\ loc' = loc
       ELSE
            /\ chunks' = <<>>
            /\ pc' = "sw_loop" /\ status' = "run"
            /\ loc' = [start |-> 0, end |-> size, input_size |-> Len(t)]
    /\ UNCHANGED config

\* SwChunkStart without the overlap: the window starts where the previous
\* core ended.
SwChunkStart_NoOverlap(start, ov) == start

\* The start of the chunk of one iteration, line 51.
SwChunkStart(start, ov) == IF start = 0 THEN 0 ELSE start - ov

\* The window that follows [start, end), lines 64-65.
SwAdvance(l, sz) == [l EXCEPT !.start = l.end, !.end = l.end + sz]

\* One iteration of the loop, lines 50-66.
SwLoop ==
    /\ pc = "sw_loop"
    /\ LET t == trim(input)
           chunk_start == SwChunkStart(loc.start, overlap)
           chunk_end == loc.end + overlap
       IN IF chunk_end > loc.input_size THEN
               IF SliceOk(t, chunk_start, loc.input_size) THEN
                    /\ chunks' = Append(chunks, Range(chunk_start, loc.input_size))
                    /\ pc' = "done" /\ status' = "ok"
                    /\ loc' = loc
               ELSE /\ pc' = "done" /\ status' = "panic"
                    /\ UNCHANGED <<chunks, loc>>
          ELSE IF SliceOk(t, chunk_start, chunk_end) THEN
                    /\ chunks' = Append(chunks, Range(chunk_start, chunk_end))
                    /\ loc' = SwAdvance(loc, size)
                    /\ UNCHANGED <<pc, status>>
               ELSE /\ pc' = "done" /\ status' = "panic"
                    /\ UNCHANGED <<chunks, loc>>
    /\ UNCHANGED config

(***************************************************************************)
(* combine_str / concat: the str that starts where a starts and is         *)
(* len(a) + len(b) bytes long, read from the input's memory and checked by *)
(* std::str::from_utf8.                                                    *)
(***************************************************************************)
concat(a, b) == Range(a.s, a.s + RLen(a) + RLen(b))

\* from_utf8 accepts the bytes of the range r of the (valid) text t.
from_utf8_ok(t, r) ==
    /\ 0 <= r.s /\ r.s <= r.e /\ r.e <= Len(t)
    /\ is_char_boundary(t, r.s)
    /\ is_char_boundary(t, r.e)

(***************************************************************************)
(* Recursive (seq.rs), phase 1: chunk_recursive.                           *)
(***************************************************************************)
\* The pattern pat occurs in t at byte offset i and ends at or before e.
MatchAt(t, i, e, pat) ==
    /\ i + Len(pat) <= e
    /\ SubSeq(t, i + 1, i + Len(pat)) = pat

\* The offset of the first code point boundary after offset i < Len(t).
RECURSIVE NextBoundary(_, _)
NextBoundary(t, i) ==
    IF is_char_boundary(t, i + 1) THEN i + 1 ELSE NextBoundary(t, i + 1)

\* split_inclusive with a non-empty pattern: from is where the current piece
\* starts, i the offset the search has reached.
RECURSIVE SplitFrom(_, _, _, _, _)
SplitFrom(t, e, pat, from, i) ==
    IF i + Len(pat) > e
    THEN IF from < e THEN <<Range(from, e)>> ELSE <<>>
    ELSE IF MatchAt(t, i, e, pat)
         THEN <<Range(from, i + Len(pat))>>
              \o SplitFrom(t, e, pat, i + Len(pat), i + Len(pat))
         ELSE SplitFrom(t, e, pat, from, i + 1)

\* split_inclusive with the empty pattern, which matches at every code point
\* boundary: the empty piece before the first match, then one piece per code
\* point; the empty remainder is not yielded.
RECURSIVE SplitChars(_, _, _)
SplitChars(t, e, i) ==
    IF i >= e THEN <<>>
    ELSE <<Range(i, NextBoundary(t, i))>> \o SplitChars(t, e, NextBoundary(t, i))

\* A split that yields its pieces from the last to the first (as rsplit
\* would).
split_inclusive_Rev(t, r, pat) ==
    LET p == IF pat = <<>>
             THEN <<Range(r.s, r.s)>> \o SplitChars(t, r.e, r.s)
             ELSE SplitFrom(t, r.e, pat, r.s, r.s)
    IN [i \in 1..Len(p) |-> p[Len(p) + 1 - i]]

\* A split that leaves the delimiter out of its pieces (as str::split does).
split_inclusive_NoDelim(t, r, pat) ==
    LET p == IF pat = <<>>
             THEN <<Range(r.s, r.s)>> \o SplitChars(t, r.e, r.s)
             ELSE SplitFrom(t, r.e, pat, r.s, r.s)
        Ends(q) == /\ pat # <<>> /\ RLen(q) >= Len(pat)
                   /\ SubSeq(t, q.e - Len(pat) + 1, q.e) = pat
    IN [i \in 1..Len(p) |->
            IF Ends(p[i]) THEN Range(p[i].s, p[i].e - Len(pat)) ELSE p[i]]

\* str::split_inclusive(pat) on the range r of t, as ranges of t.
split_inclusive(t, r, pat) ==
    IF pat = <<>>
    THEN <<Range(r.s, r.s)>> \o SplitChars(t, r.e, r.s)
    ELSE SplitFrom(t, r.e, pat, r.s, r.s)

\* A widening that always starts from the pointer of the piece.
Widen_FromPiece(buffer, chunk) ==
    Range(chunk.s, chunk.s + RLen(buffer) + RLen(chunk))

\* The buffer widened by a piece, lines 108-114: the pointer of the buffer (of
\* the piece when the buffer is empty) and the two lengths added.
Widen(buffer, chunk) ==
    LET base == IF RLen(buffer) = 0 THEN chunk.s ELSE buffer.s
    IN Range(base, base + RLen(buffer) + RLen(chunk))

\* The piece fits when buffer and piece together exceed size by one byte.
Fits_OneOver(buffer, chunk, sz) == RLen(buffer) + RLen(chunk) <= sz + 1

\* The piece fits into the buffer, line 106.
Fits(buffer, chunk, sz) == RLen(buffer) + RLen(chunk) <= sz

EmptyStr == Range(0, 0)

\* The state threaded through phase 1: the buffer, the chunks pushed, whether
\* from_utf8 failed, the deepest idx a call was made with, whether every
\* piece appended to a non-empty buffer started where the buffer ended, and
\* the pieces handed to a call that returned at once (the pieces skipped).
RecState(buffer, pushed, err, depth, contig) ==
    [buffer |-> buffer, pushed |-> pushed, err |-> err,
     depth |-> depth, contig |-> contig, dropped |-> <<>>]

\* chunk_recursive, lines 97-153, and its loop over the pieces from the k-th on.
\* st.buffer is the buffer argument; the result's buffer is the buffer the
\* caller holds afterwards and some tells whether the call returned Some.
RECURSIVE chunk_recursive(_, _, _, _, _, _)
RECURSIVE ForPieces(_, _, _, _, _, _, _)
\* A chunk_recursive that, past the last delimiter, goes one level deeper and
\* splits the piece into its characters before it gives up.
chunk_recursive_CharFallback(t, sz, dl, r, idx, st) ==
    LET st1 == [st EXCEPT !.depth = Max(st.depth, idx)] IN
    IF idx >= Len(dl) + 1
    THEN [st |-> [st1 EXCEPT !.dropped = Append(st.dropped, r)],
          some |-> FALSE]
    ELSE LET pat == IF idx < Len(dl) THEN dl[idx + 1] ELSE <<>>
             end == ForPieces(t, sz, dl, split_inclusive(t, r, pat),
                              1, idx, st1)
         IN [st |-> end, some |-> ~end.err /\ RLen(end.buffer) > 0]

chunk_recursive(t, sz, dl, r, idx, st) ==
    LET st1 == [st EXCEPT !.depth = Max(st.depth, idx)] IN
    IF idx >= Len(dl)
    THEN [st |-> [st1 EXCEPT !.dropped = Append(st.dropped, r)],
          some |-> FALSE]
    ELSE LET end == ForPieces(t, sz, dl, split_inclusive(t, r, dl[idx + 1]),
                              1, idx, st1)
         IN [st |-> end, some |-> ~end.err /\ RLen(end.buffer) > 0]

ForPieces(t, sz, dl, pieces, k, idx, st) ==
    IF k > Len(pieces) \/ st.err THEN st
    ELSE LET chunk == pieces[k] IN
         IF Fits(st.buffer, chunk, sz)
         THEN LET nb == Widen(st.buffer, chunk)
                  adj == RLen(st.buffer) = 0 \/ chunk.s = st.buffer.e
              IN IF from_utf8_ok(t, nb)
                 THEN ForPieces(t, sz, dl, pieces, k + 1, idx,
                                [st EXCEPT !.buffer = nb,
                                           !.contig = st.contig /\ adj])
                 ELSE [st EXCEPT !.err = TRUE, !.contig = st.contig /\ adj]
         ELSE IF RLen(st.buffer) > 0 /\ RLen(chunk) <= sz
         THEN ForPieces(t, sz, dl, pieces, k + 1, idx,
                        [st EXCEPT !.pushed = Append(st.pushed, st.buffer),
                                   !.buffer = chunk])
         ELSE LET st2 == IF RLen(st.buffer) > 0
                         THEN [st EXCEPT !.pushed = Append(st.pushed, st.buffer),
                                         !.buffer = EmptyStr]
                         ELSE st
                  rec == chunk_recursive(t, sz, dl, chunk, idx + 1, st2)
                  st3 == IF rec.some
                         THEN rec.st
                         ELSE [rec.st EXCEPT !.buffer = st2.buffer]
              IN ForPieces(t, sz, dl, pieces, k + 1, idx, st3)

\* Phase 1 that emits the whole input as one raw split when every piece of it
\* was oversized, where the code drops it.
Phase1_EmitOversized(t, sz, dl) ==
    LET rec == chunk_recursive(t, sz, dl, Range(0, Len(t)), 0,
                               RecState(EmptyStr, <<>>, FALSE, 0, TRUE))
        pushed == IF rec.some THEN Append(rec.st.pushed, rec.st.buffer)
                  ELSE rec.st.pushed
    IN [rec.st EXCEPT !.pushed = IF pushed = <<>> /\ t # <<>>
                                 THEN <<Range(0, Len(t))>> ELSE pushed]

\* chunk(), lines 158-161: the raw splits of phase 1.
Phase1(t, sz, dl) ==
    LET rec == chunk_recursive(t, sz, dl, Range(0, Len(t)), 0,
                               RecState(EmptyStr, <<>>, FALSE, 0, TRUE))
    IN [rec.st EXCEPT !.pushed = IF rec.some
                                 THEN Append(rec.st.pushed, rec.st.buffer)
                                 ELSE rec.st.pushed]

(***************************************************************************)
(* Recursive (seq.rs), phase 2: chunk() stitches each raw split with its   *)
(* neighbours.                                                             *)
(***************************************************************************)
\* &r[a..b] of the str r succeeds.
SubSliceOk(t, r, a, b) ==
    /\ 0 <= a /\ a <= b /\ b <= RLen(r)
    /\ is_char_boundary(t, r.s + a)
    /\ is_char_boundary(t, r.s + b)

\* What is borrowed from the previous split, lines 188-193 and 199-204.
PrevTaken(prev, ov) ==
    IF RLen(prev) <= ov THEN prev ELSE Range(prev.s + ov, prev.e)

\* What the first chunk borrows from the next split, lines 175-181.
NextTakenFirst(next, ov) ==
    IF RLen(next) <= ov THEN next ELSE Range(next.s, next.s + ov + 1)

\* What an interior chunk borrows from the next split, lines 206-211.
NextTaken(next, ov) ==
    IF RLen(next) <= ov THEN next ELSE Range(next.s, next.s + ov)

\* The slices prev[overlap..], next[..=overlap], next[..overlap] succeed.
TakenOk(t, whole, taken) ==
    SubSliceOk(t, whole, taken.s - whole.s, taken.e - whole.s)

\* One iteration of the loop of lines 165-217 for index i (0-based): the chunk
\* pushed, what it borrowed, whether the loop ends, or the failure.
Stitch(t, splits, i, ov) ==
    LET n == Len(splits)
        current == splits[i + 1]
        Pushed(r, p, nx, brk) ==
            [kind |-> "ok", r |-> r, i |-> i, cur |-> current,
             prev |-> p, next |-> nx, brk |-> brk]
        Fail(k) ==
            [kind |-> k, r |-> EmptyStr, i |-> i, cur |-> current,
             prev |-> EmptyStr, next |-> EmptyStr, brk |-> TRUE]
    IN IF i = 0 /\ n = 1 THEN Pushed(current, EmptyStr, EmptyStr, TRUE)
       ELSE IF i = 0 THEN
            LET next == NextTakenFirst(splits[i + 2], ov)
                chunk == concat(current, next)
            IN IF ~TakenOk(t, splits[i + 2], next) THEN Fail("panic")
               ELSE IF ~from_utf8_ok(t, chunk) THEN Fail("utf8")
               ELSE Pushed(chunk, EmptyStr, next, FALSE)
       ELSE IF i = n - 1 THEN
            LET prev == PrevTaken(splits[i], ov)
                chunk == concat(prev, current)
            IN IF ~TakenOk(t, splits[i], prev) THEN Fail("panic")
               ELSE IF ~from_utf8_ok(t, chunk) THEN Fail("utf8")
               ELSE Pushed(chunk, prev, EmptyStr, TRUE)
       ELSE LET prev == PrevTaken(splits[i], ov)
                next == NextTaken(splits[i + 2], ov)
                cur2 == concat(prev, current)
                chunk == concat(cur2, next)
            IN IF ~TakenOk(t, splits[i], prev) THEN Fail("panic")
               ELSE IF ~TakenOk(t, splits[i + 2], next) THEN Fail("panic")
               ELSE IF ~from_utf8_ok(t, cur2) THEN Fail("utf8")
               ELSE IF ~from_utf8_ok(t, chunk) THEN Fail("utf8")
               ELSE Pushed(chunk, prev, next, FALSE)

\* chunk(), lines 158-163: phase 1.
RecEnter ==
    /\ pc = "rec_enter"
    /\ LET p1 == Phase1(input, size, delims) IN
       IF p1.err
       THEN /\ pc' = "done" /\ status' = "utf8"
            /\ UNCHANGED <<chunks, loc>>
       ELSE /\ loc' = [splits |-> p1.pushed, i |-> 0, out |-> <<>>,
                       depth |-> p1.depth, contig |-> p1.contig,
                       dropped |-> p1.dropped]
            /\ pc' = IF p1.pushed = <<>> THEN "rec_finish" ELSE "rec_stitch"
            /\ UNCHANGED <<status, chunks>>
    /\ UNCHANGED config

\* chunk(), lines 165-217: one iteration of the stitching loop.
RecStitch ==
    /\ pc = "rec_stitch"
    /\ LET c == Stitch(input, loc.splits, loc.i, overlap) IN
       IF c.kind # "ok"
       THEN /\ pc' = "done" /\ status' = c.kind
            /\ UNCHANGED <<chunks, loc>>
       ELSE /\ loc' = [loc EXCEPT !.out = Append(loc.out, c), !.i = loc.i + 1]
            /\ pc' = IF c.brk \/ loc.i + 1 >= Len(loc.splits)
                     THEN "rec_finish" ELSE "rec_stitch"
            /\ UNCHANGED <<status, chunks>>
    /\ UNCHANGED config

\* The chunk is kept by the filter of lines 229-232.
NotBlank(t, r) == trim(Bytes(t, r)) # <<>>

\* chunk(), lines 229-232: blank chunks are dropped and the rest returned.
RecFinish ==
    /\ pc = "rec_finish"
    /\ LET Keep(c) == NotBlank(input, c.r)
           kept == SelectSeq(loc.out, Keep)
       IN chunks' = [k \in 1..Len(kept) |-> kept[k].r]
    /\ pc' = "done" /\ status' = "ok"
    /\ UNCHANGED <<loc, config>>

NextRec == RecEnter \/ RecStitch \/ RecFinish

RecAlphabet == {<<"a">>, <<" ">>, <<";">>, CodePoint(2)}

\* Delimiter lists: coarse to fine, with and without the final empty string.
RecDelims ==
    { << <<";">> >>,
      << <<";">>, <<" ">> >>,
      << <<" ">>, <<>> >>,
      << <<";">>, <<" ">>, <<>> >> }

InitRec ==
    /\ input \in Texts(RecAlphabet, MaxRecChars)
    /\ size \in 1..MaxRecSize
    /\ overlap \in 0..MaxRecOverlap
    /\ delims \in RecDelims
    /\ skip_forward = <<>> /\ skip_back = <<>>
    /\ debug = TRUE
    /\ pc = "rec_enter" /\ status = "run" /\ chunks = <<>> /\ loc = NoLoc

SpecRec == InitRec /\ [][NextRec]_vars

(***************************************************************************)
(* usize arithmetic.  A usize that wrapped below zero (release build) is   *)
(* represented by the negative number congruent to it modulo 2^64; with    *)
(* overflow checks on (debug build) the subtraction panics instead.        *)
(***************************************************************************)
\* a - n: the difference, and whether the subtraction panics.
USub(a, n, dbg) == [v |-> a - n, panic |-> dbg /\ a >= 0 /\ a - n < 0]

\* a + n for n >= 0: the sum, and whether the addition panics.
UAdd(a, n, dbg) == [v |-> a + n, panic |-> dbg /\ a < 0 /\ a + n >= 0]

\* usize::saturating_sub
saturating_sub(a, n) == IF a >= 0 /\ a < n THEN 0 ELSE a - n

\* a >= b for a usize a and an in-range b >= 0.
UGe(a, b) == a < 0 \/ a >= b

(***************************************************************************)
(* Cursor (ssw.rs, lines 160-269).  buf is the scanned text, pos the byte  *)
(* position; chars() iterates code points.                                 *)
(***************************************************************************)
\* SnappingSlidingWindow::default's delimiter.
delimiter == <<".">>

\* str::chars(): the code points of t, each as its bytes.  The j-th code
\* point starts at the j-th offset that holds no continuation byte and ends
\* where the next one starts.
chars(t) ==
    LET IsStart(i) == is_char_boundary(t, i)
        starts == SelectSeq([i \in 1..Len(t) |-> i - 1], IsStart)
    IN [j \in 1..Len(starts) |->
            SubSeq(t, starts[j] + 1, NextBoundary(t, starts[j]))]

\* A count that sees no repeated delimiter.
RunLen_None(cs, k, d) == 0

\* How many of cs[k], cs[k+1], ... in a row equal the delimiter d: the
\* iterations of `while chars.next().is_some_and(|ch| ch == self.delim)`.
RECURSIVE RunLen(_, _, _)
RunLen(cs, k, d) ==
    IF k <= Len(cs) /\ cs[k] = d THEN 1 + RunLen(cs, k + 1, d) ELSE 0

\* A get_slice that always returns the prefix before pos, also when the
\* cursor stands on the last byte.
Cursor_get_slice_Prefix(buf, pos) ==
    [r |-> Range(0, pos), panic |-> ~SliceOk(buf, 0, pos)]

\* Cursor::get_slice, lines 176-181: the range of buf it returns, or a panic.
Cursor_get_slice(buf, pos) ==
    IF buf = <<>> \/ pos = Len(buf) - 1
    THEN [r |-> Range(0, Len(buf)), panic |-> FALSE]
    ELSE [r |-> Range(0, pos), panic |-> ~SliceOk(buf, 0, pos)]

\* The loop of Cursor::advance, lines 192-218: cs[k] is what chars.next()
\* yields next.
RECURSIVE Cursor_advance_loop(_, _, _, _, _, _)
Cursor_advance_loop(cs, len, d, dbg, k, pos) ==
    IF k > Len(cs)
    THEN [pos |-> pos, panic |-> dbg /\ pos # len - 1]
    ELSE IF pos + 1 = len - 1
    THEN [pos |-> pos + 1, panic |-> FALSE]
    ELSE IF cs[k] = d
    THEN LET run == RunLen(cs, k + 1, d) IN
         IF run = 0
         THEN [pos |-> pos + 1, panic |-> FALSE]
         ELSE Cursor_advance_loop(cs, len, d, dbg, k + run + 2, pos + 1 + run + 1)
    ELSE Cursor_advance_loop(cs, len, d, dbg, k + 1, pos + 1)

\* Cursor::advance, lines 185-219.
Cursor_advance(buf, d, dbg, pos) ==
    IF buf = <<>> \/ pos = Len(buf) - 1
    THEN [pos |-> pos, panic |-> FALSE]
    ELSE Cursor_advance_loop(chars(buf), Len(buf), d, dbg, pos + 1, pos)

\* Cursor::advance_exact, lines 222-227.
Cursor_advance_exact(buf, dbg, pos, amt) ==
    IF pos + amt >= Len(buf)
    THEN [pos |-> Len(buf) - 1 + amt, panic |-> dbg /\ Len(buf) = 0]
    ELSE [pos |-> pos + amt, panic |-> FALSE]

\* &buf[a..b] == pat: "yes", "no", or "panic" when the slice fails.
SliceEq(buf, a, b, pat) ==
    IF ~SliceOk(buf, a, b) THEN "panic"
    ELSE IF SubSeq(buf, a + 1, b) = pat THEN "yes" ELSE "no"

\* A peek_back that never finds its pattern.
Cursor_peek_back_Never(buf, pos, pat) == "no"

\* Cursor::peek_back, lines 229-244.
Cursor_peek_back(buf, pos, pat) ==
    IF saturating_sub(pos, Len(pat)) = 0 THEN "no"
    ELSE IF pos = Len(buf) - 1
    THEN IF SliceEq(buf, pos, Len(buf), <<".">>) = "panic" THEN "panic"
         ELSE IF SliceEq(buf, pos, Len(buf), <<".">>) = "yes"
         THEN SliceEq(buf, pos - Len(pat), pos, pat)
         ELSE SliceEq(buf, pos - Len(pat), pos + 1, pat)
    ELSE SliceEq(buf, pos - 1 - Len(pat), pos - 1, pat)

\* Cursor::peek_forward, lines 246-251.
Cursor_peek_forward(buf, pos, pat) ==
    IF pos + Len(pat) >= Len(buf) THEN "no"
    ELSE SliceEq(buf, pos, pos + Len(pat), pat)

\* Cursor::advance_if_peek, lines 253-268: the loop over the back patterns
\* from the k-th on, then the loop over the forward patterns.
RECURSIVE Cursor_peek_fwd_from(_, _, _, _, _)
Cursor_peek_fwd_from(buf, dbg, pos, forward, k) ==
    IF k > Len(forward) THEN [res |-> FALSE, pos |-> pos, panic |-> FALSE]
    ELSE LET pk == Cursor_peek_forward(buf, pos, forward[k]) IN
         IF pk = "panic" THEN [res |-> FALSE, pos |-> pos, panic |-> TRUE]
         ELSE IF pk = "yes"
         THEN LET a == Cursor_advance_exact(buf, dbg, pos, Len(forward[k]))
              IN [res |-> TRUE, pos |-> a.pos, panic |-> a.panic]
         ELSE Cursor_peek_fwd_from(buf, dbg, pos, forward, k + 1)

RECURSIVE Cursor_peek_back_from(_, _, _, _, _, _)
Cursor_peek_back_from(buf, dbg, pos, forward, back, k) ==
    IF k > Len(back) THEN Cursor_peek_fwd_from(buf, dbg, pos, forward, 1)
    ELSE LET pk == Cursor_peek_back(buf, pos, back[k]) IN
         IF pk = "panic" THEN [res |-> FALSE, pos |-> pos, panic |-> TRUE]
         ELSE IF pk = "yes" THEN [res |-> TRUE, pos |-> pos, panic |-> FALSE]
         ELSE Cursor_peek_back_from(buf, dbg, pos, forward, back, k + 1)

Cursor_advance_if_peek(buf, dbg, pos, forward, back) ==
    Cursor_peek_back_from(buf, dbg, pos, forward, back, 1)

(***************************************************************************)
(* CursorRev (ssw.rs, lines 271-385).                                      *)
(***************************************************************************)
\* Iterator::rev: the sequence from its last element to its first.
Reverse(q) == [i \in 1..Len(q) |-> q[Len(q) + 1 - i]]

\* CursorRev::new, lines 286-292: the initial pos.
CursorRev_new(buf) == saturating_sub(Len(buf), 1)

\* A get_slice that returns the whole buffer wherever the cursor stands.
CursorRev_get_slice_Whole(buf, dbg, pos) ==
    [r |-> Range(0, Len(buf)), panic |-> FALSE]

\* CursorRev::get_slice, lines 294-300.
CursorRev_get_slice(buf, dbg, pos) ==
    IF pos = 0
    THEN [r |-> Range(0, Len(buf)), panic |-> FALSE]
    ELSE [r |-> Range(pos + 1, Len(buf)),
          panic |-> UAdd(pos, 1, dbg).panic \/ ~SliceOk(buf, pos + 1, Len(buf))]

\* The loop of CursorRev::advance, lines 310-344: rcs[k] is what chars.next()
\* yields next.
RECURSIVE CursorRev_advance_loop(_, _, _, _, _, _)
CursorRev_advance_loop(rcs, d, dbg, k, pos, first_iter) ==
    IF k > Len(rcs)
    THEN [pos |-> pos, panic |-> dbg /\ pos # 0]
    ELSE LET p1 == USub(pos, 1, dbg) IN
    IF p1.panic THEN [pos |-> pos, panic |-> TRUE]
    ELSE IF p1.v = 0 THEN [pos |-> 0, panic |-> FALSE]
    ELSE IF rcs[k] = d
    THEN LET run == RunLen(rcs, k + 1, d)
             p2 == USub(p1.v, run, dbg)
             p3 == IF run > 0 THEN USub(p2.v, 1, dbg) ELSE p2
         IN IF p2.panic \/ p3.panic THEN [pos |-> p1.v, panic |-> TRUE]
            ELSE IF run = 0 /\ ~first_iter THEN [pos |-> p3.v, panic |-> FALSE]
            ELSE CursorRev_advance_loop(rcs, d, dbg, k + run + 2, p3.v, FALSE)
    ELSE CursorRev_advance_loop(rcs, d, dbg, k + 1, p1.v, first_iter)

\* CursorRev::advance, lines 302-345.
CursorRev_advance(buf, d, dbg, pos) ==
    IF pos = 0 THEN [pos |-> pos, panic |-> FALSE]
    ELSE LET skip == USub(Len(buf) - 1, pos, dbg) IN
         IF skip.panic THEN [pos |-> pos, panic |-> TRUE]
         ELSE CursorRev_advance_loop(Reverse(chars(buf)), d, dbg,
                                     IF skip.v < 0 THEN Len(buf) + 1 ELSE skip.v + 1,
                                     pos, TRUE)

\* CursorRev::advance_exact, lines 348-351.
CursorRev_advance_exact(pos, amt) == saturating_sub(pos, amt)

\* CursorRev::peek_back, lines 353-355.
CursorRev_peek_back(buf, pos, pat) ==
    SliceEq(buf, saturating_sub(pos, Len(pat)), pos, pat)

\* CursorRev::peek_forward, lines 357-367.
CursorRev_peek_forward(buf, dbg, pos, pat) ==
    IF UAdd(pos, Len(pat), dbg).panic THEN "panic"
    ELSE IF UGe(pos + Len(pat), Len(buf)) THEN "no"
    ELSE IF pos = 0 THEN SliceEq(buf, 0, Len(pat), pat)
    ELSE SliceEq(buf, pos + 1, pos + Len(pat) + 1, pat)

\* CursorRev::advance_if_peek, lines 369-384.
RECURSIVE CursorRev_peek_fwd_from(_, _, _, _, _)
CursorRev_peek_fwd_from(buf, dbg, pos, forward, k) ==
    IF k > Len(forward) THEN [res |-> FALSE, pos |-> pos, panic |-> FALSE]
    ELSE LET pk == CursorRev_peek_forward(buf, dbg, pos, forward[k]) IN
         IF pk = "panic" THEN [res |-> FALSE, pos |-> pos, panic |-> TRUE]
         ELSE IF pk = "yes" THEN [res |-> TRUE, pos |-> pos, panic |-> FALSE]
         ELSE CursorRev_peek_fwd_from(buf, dbg, pos, forward, k + 1)

RECURSIVE CursorRev_peek_back_from(_, _, _, _, _, _)
CursorRev_peek_back_from(buf, dbg, pos, forward, back, k) ==
    IF k > Len(back) THEN CursorRev_peek_fwd_from(buf, dbg, pos, forward, 1)
    ELSE LET pk == CursorRev_peek_back(buf, pos, back[k]) IN
         IF pk = "panic" THEN [res |-> FALSE, pos |-> pos, panic |-> TRUE]
         ELSE IF pk = "yes"
         THEN [res |-> TRUE, pos |-> CursorRev_advance_exact(pos, Len(back[k])),
               panic |-> FALSE]
         ELSE CursorRev_peek_back_from(buf, dbg, pos, forward, back, k + 1)

CursorRev_advance_if_peek(buf, dbg, pos, forward, back) ==
    CursorRev_peek_back_from(buf, dbg, pos, forward, back, 1)

(***************************************************************************)
(* SnappingSlidingWindow::chunk (ssw.rs, lines 66-144).                    *)
(* loc: cursor = cursor.pos, chunk and start as in the code; prev_end and  *)
(* next_off delimit prev = input[..prev_end] and next = input[next_off..], *)
(* p_pos = p_cursor.pos, n_pos = n_cursor.pos, k counts the iterations of  *)
(* `for _ in 0..overlap` that are finished.                                *)
(***************************************************************************)
\* The part of the state a step of chunk() writes.
State(p, st, ch, l) == [pc |-> p, status |-> st, chunks |-> ch, loc |-> l]

Cur == State(pc, status, chunks, loc)

\* The step's result becomes the state.
Apply(n) ==
    /\ pc' = n.pc /\ status' = n.status /\ chunks' = n.chunks /\ loc' = n.loc
    /\ UNCHANGED config

\* chunk() ends with a panic or with Err(Utf8).
SswFail(kind) == State("done", kind, chunks, loc)

\* Lines 75-79.
SswEnterStep ==
    IF ~SliceOk(input, 0, 1) THEN SswFail("panic")
    ELSE State("ssw_main", status, chunks,
               [cursor |-> 0, chunk |-> Range(0, 1), start |-> 1,
                prev_end |-> 0, next_off |-> 0,
                p_pos |-> 0, n_pos |-> 0, k |-> 0])

SswEnter == pc = "ssw_enter" /\ Apply(SswEnterStep)

\* The chunk is closed once it has reached size, line 101.
SswCloses(chunk, sz) == ~(RLen(chunk) < sz)

\* The input is used up, line 82.
SswExhausted(start, len) == start >= len

\* One iteration of the main loop up to the overlap loops, lines 82-109.
SswMainStep ==
    IF SswExhausted(loc.start, Len(input))
    THEN State("done", "ok",
               IF RLen(loc.chunk) > 0 THEN Append(chunks, loc.chunk) ELSE chunks,
               loc)
    ELSE LET adv == Cursor_advance(input, delimiter, debug, loc.cursor)
             pk == Cursor_advance_if_peek(input, debug, adv.pos,
                                          skip_forward, skip_back)
             piece == Range(loc.start, pk.pos)
             chunk == concat(loc.chunk, piece)
             start == loc.start + RLen(piece)
             prev_end == USub(pk.pos, RLen(chunk), debug)
         IN IF adv.panic \/ pk.panic THEN SswFail("panic")
            ELSE IF pk.res
            THEN State(pc, status, chunks, [loc EXCEPT !.cursor = pk.pos])
            ELSE IF ~SliceOk(input, loc.start, pk.pos) THEN SswFail("panic")
            ELSE IF ~from_utf8_ok(input, chunk) THEN SswFail("utf8")
            ELSE IF ~SswCloses(chunk, size)
            THEN State(pc, status, chunks,
                       [loc EXCEPT !.cursor = pk.pos, !.chunk = chunk,
                                   !.start = start])
            ELSE IF \/ prev_end.panic
                    \/ ~SliceOk(input, 0, prev_end.v)
                    \/ ~SliceOk(input, pk.pos, Len(input))
            THEN SswFail("panic")
            ELSE State(IF overlap = 0 THEN "ssw_emit" ELSE "ssw_prev",
                       status, chunks,
                       [loc EXCEPT
                          !.cursor = pk.pos, !.chunk = chunk,
                          !.start = start,
                          !.prev_end = prev_end.v,
                          !.next_off = pk.pos,
                          !.p_pos = CursorRev_new(SubSeq(input, 1, prev_end.v)),
                          !.n_pos = 0,
                          !.k = 0])

SswMain == pc = "ssw_main" /\ Apply(SswMainStep)

PrevBuf == SubSeq(input, 1, loc.prev_end)

NextBuf == SubSeq(input, loc.next_off + 1, Len(input))

\* One iteration of the loop on p_cursor, lines 112-117.
SswPrevStep ==
    LET adv == CursorRev_advance(PrevBuf, delimiter, debug, loc.p_pos)
        pk == CursorRev_advance_if_peek(PrevBuf, debug, adv.pos,
                                        skip_forward, skip_back)
    IN IF adv.panic \/ pk.panic THEN SswFail("panic")
       ELSE State(IF pk.res THEN "ssw_prev" ELSE "ssw_next", status, chunks,
                  [loc EXCEPT !.p_pos = pk.pos])

SswPrev == pc = "ssw_prev" /\ Apply(SswPrevStep)

\* One iteration of the loop on n_cursor, lines 119-124, and the end of one
\* iteration of `for _ in 0..*overlap`.
SswNextStep ==
    LET adv == Cursor_advance(NextBuf, delimiter, debug, loc.n_pos)
        pk == Cursor_advance_if_peek(NextBuf, debug, adv.pos,
                                     skip_forward, skip_back)
    IN IF adv.panic \/ pk.panic THEN SswFail("panic")
       ELSE IF pk.res
       THEN State(pc, status, chunks, [loc EXCEPT !.n_pos = pk.pos])
       ELSE State(IF loc.k + 1 >= overlap THEN "ssw_emit" ELSE "ssw_prev",
                  status, chunks,
                  [loc EXCEPT !.n_pos = pk.pos, !.k = loc.k + 1])

SswNext == pc = "ssw_next" /\ Apply(SswNextStep)

\* The chunk with its context, lines 127-130: the ranges of prev and next in
\* the input, the two concatenations, or the failure.
SswFull ==
    LET p == CursorRev_get_slice(PrevBuf, debug, loc.p_pos)
        n == Cursor_get_slice(NextBuf, loc.n_pos)
        prev == p.r
        next == Range(loc.next_off + n.r.s, loc.next_off + n.r.e)
        inner == concat(prev, loc.chunk)
        full == concat(inner, next)
    IN [r |-> full, prev |-> prev, next |-> next,
        kind |-> IF p.panic \/ n.panic THEN "panic"
                 ELSE IF ~from_utf8_ok(input, inner) THEN "utf8"
                 ELSE IF ~from_utf8_ok(input, full) THEN "utf8"
                 ELSE "ok"]

\* The main loop ends after a chunk was pushed, line 136.
SswBreaks(start, n_pos, len) == start + n_pos >= len

\* Lines 127-140: the chunk is pushed and the next one started.
SswEmitStep ==
    LET f == SswFull
        start == loc.start + 1
        pushed == Append(chunks, f.r)
    IN IF f.kind # "ok" THEN SswFail(f.kind)
       ELSE IF SswBreaks(start, loc.n_pos, Len(input))
       THEN State("done", "ok", pushed, [loc EXCEPT !.start = start])
       ELSE IF ~SliceOk(input, start - 1, start)
       THEN State("done", "panic", pushed, [loc EXCEPT !.start = start])
       ELSE State("ssw_main", status, pushed,
                  [loc EXCEPT !.start = start,
                              !.chunk = Range(start - 1, start)])

SswEmit == pc = "ssw_emit" /\ Apply(SswEmitStep)

\* What the step of chunk() at the current position makes of the state.
SswStep ==
    CASE pc = "ssw_enter" -> SswEnterStep
      [] pc = "ssw_main" -> SswMainStep
      [] pc = "ssw_prev" -> SswPrevStep
      [] pc = "ssw_next" -> SswNextStep
      [] pc = "ssw_emit" -> SswEmitStep
      [] OTHER -> Cur

NextSSW == SswEnter \/ SswMain \/ SswPrev \/ SswNext \/ SswEmit

SswAlphabet == {<<".">>, <<"a">>, <<"b">>, CodePoint(2)}

\* Skip lists: none, or one pattern.
SswSkipForward == {<<>>, << <<"a">> >>}

SswSkipBack == {<<>>, << <<"b">> >>}

InitSSW ==
    /\ input \in Texts(SswAlphabet, MaxSswChars)
    /\ size \in 1..MaxSswSize
    /\ overlap \in 0..MaxSswOverlap
    /\ delims = <<>>
    /\ skip_forward \in SswSkipForward
    /\ skip_back \in SswSkipBack
    /\ debug \in BOOLEAN
    /\ pc = "ssw_enter" /\ status = "run" /\ chunks = <<>> /\ loc = NoLoc

SpecSSW == InitSSW /\ [][NextSSW]_vars

NextSW == SwEnter \/ SwLoop


SwAlphabet == {<<"a">>, <<" ">>, CodePoint(2), CodePoint(3), CodePoint(4)}

InitSW ==
    /\ input \in Texts(SwAlphabet, MaxSwChars)
    /\ size \in 1..MaxSwSize
    /\ overlap \in 0..(MaxSwSize - 1)
    /\ SlidingWindow_new_ok(size, overlap)
    /\ delims = <<>> /\ skip_forward = <<>> /\ skip_back = <<>>
    /\ debug = TRUE
    /\ pc = "sw_enter" /\ status = "run" /\ chunks = <<>> /\ loc = NoLoc

SpecSW == InitSW /\ [][NextSW]_vars


(***************************************************************************)
(* SlidingWindow on the input of tests::sliding_window_works (sw.rs, lines *)
(* 92-101) and on every prefix of it, with the test's parameters.          *)
(***************************************************************************)
TestInput ==
    << "S", "t", "i", "c", "k", "s", " ", "a", "n", "d", " ", "s",
       "t", "o", "n", "e", "s", " ", "m", "a", "y", " ", "b", "r",
       "e", "a", "k", " ", "m", "y", " ", "b", "o", "n", "e", "s",
       ",", " ", "b", "u", "t", " ", "w", "o", "r", "d", "s", " ",
       "w", "i", "l", "l", " ", "n", "e", "v", "e", "r", " ", "l",
       "e", "v", "e", "r", "a", "g", "e", " ", "a", "g", "i", "l",
       "e", " ", "f", "r", "a", "m", "e", "w", "o", "r", "k", "s",
       " ", "t", "o", " ", "p", "r", "o", "v", "i", "d", "e", " ",
       "a", " ", "r", "o", "b", "u", "s", "t", " ", "s", "y", "n",
       "o", "p", "s", "i", "s", " ", "f", "o", "r", " ", "h", "i",
       "g", "h", " ", "l", "e", "v", "e", "l", " ", "o", "v", "e",
       "r", "v", "i", "e", "w", "s", "." >>

TestSize == 30

\* Longest input of one repeated ASCII letter chunked next to the test input.
MaxTestChars == 141

TestOverlap == 20

InitSWTest ==
    /\ input \in {SubSeq(TestInput, 1, n) : n \in 0..Len(TestInput)}
                 \cup {[i \in 1..n |-> "a"] : n \in 0..MaxTestChars}
    /\ size = TestSize
    /\ overlap = TestOverlap
    /\ SlidingWindow_new_ok(size, overlap)
    /\ delims = <<>> /\ skip_forward = <<>> /\ skip_back = <<>>
    /\ debug = TRUE
    /\ pc = "sw_enter" /\ status = "run" /\ chunks = <<>> /\ loc = NoLoc

SpecSWTest == InitSWTest /\ [][NextSW]_vars

(***************************************************************************)
(* SlidingWindow from its construction on: SlidingWindow::new(size,        *)
(* overlap) with any two numbers, then chunk() on the chunker it returned. *)
(***************************************************************************)
\* SlidingWindow::new, lines 19-27: Err(Config) or the chunker.
SwNew ==
    /\ pc = "sw_new"
    /\ IF SlidingWindow_new_ok(size, overlap)
       THEN pc' = "sw_enter" /\ status' = "run"
       ELSE pc' = "done" /\ status' = "config"
    /\ UNCHANGED <<chunks, loc, config>>

NextSWNew == SwNew \/ SwEnter \/ SwLoop

InitSWNew ==
    /\ input \in Texts(SwAlphabet, MaxSwChars)
    /\ size \in 0..MaxSwSize
    /\ overlap \in 0..MaxSwSize
    /\ delims = <<>> /\ skip_forward = <<>> /\ skip_back = <<>>
    /\ debug = TRUE
    /\ pc = "sw_new" /\ status = "run" /\ chunks = <<>> /\ loc = NoLoc

SpecSWNew == InitSWNew /\ [][NextSWNew]_vars

(***************************************************************************)
(* SnappingSlidingWindow on the inputs of tests::ssw_works,                *)
(* tests::ssw_skips_back and tests::ssw_skips_forward (ssw.rs, lines       *)
(* 560-627) and on every prefix of them, with the tests' chunkers.         *)
(***************************************************************************)
\* SnappingSlidingWindow::default, lines 154-155.
DefaultSkipForward ==
    << <<"c", "o", "m">>, <<"o", "r", "g">>, <<"n", "e", "t">>, <<"g", ".">>, <<"e", ".">>, <<"s", "h">>, <<"r", "s">>, <<"j", "s">>, <<"j", "s", "o", "n">> >>

DefaultSkipBack == << <<"w", "w", "w">>, <<"e", "t", "c">>, <<"e", ".", "g">>, <<"i", ".", "e">> >>

SswWorksInput ==
    << "I", " ", "h", "a", "v", "e", " ", "a", " ", "s", "e", "n",
       "t", "e", "n", "c", "e", ".", " ", "I", "t", " ", "i", "s",
       " ", "n", "o", "t", " ", "v", "e", "r", "y", " ", "l", "o",
       "n", "g", ".", " ", "H", "e", "r", "e", " ", "i", "s", " ",
       "a", "n", "o", "t", "h", "e", "r", ".", " ", "L", "o", "n",
       "g", " ", "s", "c", "h", "l", "o", "n", "g", " ", "d", "i",
       "n", "g", " ", "d", "o", "n", "g", "." >>

SswSkipsBackInput ==
    << "I", " ", "h", "a", "v", "e", " ", "a", " ", "s", "e", "n",
       "t", "e", "n", "c", "e", ".", " ", "I", "t", " ", "c", "o",
       "n", "t", "a", "i", "n", "s", " ", "l", "e", "t", "t", "e",
       "r", "s", ",", " ", "w", "o", "r", "d", "s", ",", " ", "e",
       "t", "c", ".", " ", "T", "h", "i", "s", " ", "o", "n", "e",
       " ", "c", "o", "n", "t", "a", "i", "n", "s", " ", "m", "o",
       "r", "e", ".", " ", "T", "h", "e", " ", "m", "o", "s", "t",
       " ", "i", "m", "p", "o", "r", "t", "a", "n", "t", " ", "o",
       "f", " ", "w", "h", "i", "c", "h", " ", "i", "s", " ", "f",
       "o", "o", "b", "a", "r", ".", ",", " ", "b", "e", "c", "a",
       "u", "s", "e", " ", "i", "t", " ", "m", "u", "s", "t", " ",
       "b", "e", " ", "s", "k", "i", "p", "p", "e", "d", "." >>

SswSkipsForwardInput ==
    << "G", "o", " ", "t", "o", " ", "s", "e", "n", "t", "e", "n",
       "c", "e", "s", ".", "o", "r", "g", " ", "f", "o", "r", " ",
       "m", "o", "r", "e", " ", "w", "o", "r", "d", "s", ".", " ",
       "5", "0", "%", " ", "o", "f", "f", " ", "o", "n", " ", "w",
       "o", "r", "d", "s", " ", "w", "i", "t", "h", " ", ">", "4",
       " ", "s", "y", "l", "l", "a", "b", "l", "e", "s", ".", " ",
       "L", "e", "v", "e", "r", "a", "g", "e", " ", "a", "g", "i",
       "l", "e", " ", "f", "r", "a", "m", "e", "w", "o", "r", "k",
       "s", " ", "t", "o", " ", "p", "r", "o", "v", "i", "d", "e",
       " ", "r", "o", "b", "u", "s", "t", " ", "h", "i", "g", "h",
       " ", "l", "e", "v", "e", "l", " ", "o", "v", "e", "r", "v",
       "i", "e", "w", " ", "a", "t", " ", "a", "g", "i", "l", "e",
       ".", "c", "o", "m", "." >>

SswSkipsBackList == << <<"e", "t", "c">>, <<"f", "o", "o", "b", "a", "r">> >>

SswSkipsForwardList == << <<"c", "o", "m">>, <<"o", "r", "g">> >>

\* The chunkers and inputs of the three tests.
SswTests ==
    { [input |-> SswWorksInput, skip_forward |-> DefaultSkipForward,
       skip_back |-> DefaultSkipBack],
      [input |-> SswSkipsBackInput, skip_forward |-> DefaultSkipForward,
       skip_back |-> SswSkipsBackList],
      [input |-> SswSkipsForwardInput, skip_forward |-> SswSkipsForwardList,
       skip_back |-> DefaultSkipBack] }

SswTestSize == 1

SswTestOverlap == 1

InitSSWTest ==
    /\ \E c \in SswTests : \E n \in 0..Len(c.input) :
          /\ input = SubSeq(c.input, 1, n)
          /\ skip_forward = c.skip_forward
          /\ skip_back = c.skip_back
    /\ size = SswTestSize
    /\ overlap = SswTestOverlap
    /\ delims = <<>>
    /\ debug \in BOOLEAN
    /\ pc = "ssw_enter" /\ status = "run" /\ chunks = <<>> /\ loc = NoLoc

SpecSSWTest == InitSSWTest /\ [][NextSSW]_vars

(***************************************************************************)
(* Cursor and CursorRev on their own, driven as the tests of ssw.rs drive  *)
(* them (lines 422-450 and 491-520): a fresh cursor over the input, then   *)
(* advance() and get_slice() again and again.  loc: pos = the cursor's     *)
(* pos, from = its pos before the last advance(), k = the advance() calls  *)
(* made, slice = what get_slice() returned after the last of them.         *)
(***************************************************************************)
\* Cursor::new, lines 168-174: the initial pos.
Cursor_new(buf) == 0

CursorState(pos, from, k, slice) ==
    [pos |-> pos, from |-> from, k |-> k, slice |-> slice]

\* cursor.advance(); cursor.get_slice()
CursorAdvanceStep ==
    LET a == Cursor_advance(input, delimiter, debug, loc.pos)
        g == Cursor_get_slice(input, a.pos)
    IN IF a.panic \/ g.panic
       THEN State(pc, "panic", chunks, loc)
       ELSE State(pc, status, chunks,
                  CursorState(a.pos, loc.pos, loc.k + 1, g.r))

CursorAdvance ==
    /\ pc = "cursor" /\ status = "run" /\ loc.k < MaxAdvances
    /\ Apply(CursorAdvanceStep)

\* cursor.advance(); cursor.get_slice() on a CursorRev
CursorRevAdvanceStep ==
    LET a == CursorRev_advance(input, delimiter, debug, loc.pos)
        g == CursorRev_get_slice(input, debug, a.pos)
    IN IF a.panic \/ g.panic
       THEN State(pc, "panic", chunks, loc)
       ELSE State(pc, status, chunks,
                  CursorState(a.pos, loc.pos, loc.k + 1, g.r))

CursorRevAdvance ==
    /\ pc = "cursor_rev" /\ status = "run" /\ loc.k < MaxAdvances
    /\ Apply(CursorRevAdvanceStep)

NextCursor == CursorAdvance \/ CursorRevAdvance

CursorAlphabet == {<<".">>, <<"a">>, CodePoint(2)}

InitCursor ==
    /\ input \in Texts(CursorAlphabet, MaxCursorChars)
    /\ size = 1 /\ overlap = 0
    /\ delims = <<>> /\ skip_forward = <<>> /\ skip_back = <<>>
    /\ debug \in BOOLEAN
    /\ pc \in {"cursor", "cursor_rev"}
    /\ status = "run" /\ chunks = <<>>
    /\ loc = IF pc = "cursor"
             THEN CursorState(Cursor_new(input), Cursor_new(input), 0,
                              Cursor_get_slice(input, Cursor_new(input)).r)
             ELSE CursorState(CursorRev_new(input), CursorRev_new(input), 0,
                              CursorRev_get_slice(input, debug,
                                                  CursorRev_new(input)).r)

SpecCursor == InitCursor /\ [][NextCursor]_vars

(***************************************************************************)
(* CursorRev moved by any sequence of advance() and advance_exact(amt)     *)
(* calls, as the overlap loop of chunk() moves p_cursor (ssw.rs, lines     *)
(* 112-117): advance(), then advance_if_peek, which calls advance_exact.   *)
(* loc as above; k counts the calls made, slice is not used.               *)
(***************************************************************************)
\* cursor.advance() on a CursorRev
CursorRevMoveStep ==
    LET a == CursorRev_advance(input, delimiter, debug, loc.pos)
    IN IF a.panic
       THEN State(pc, "panic", chunks, loc)
       ELSE State(pc, status, chunks,
                  CursorState(a.pos, loc.pos, loc.k + 1, loc.slice))

CursorRevMove ==
    /\ pc = "rev_moves" /\ status = "run" /\ loc.k < MaxAdvances
    /\ Apply(CursorRevMoveStep)

\* cursor.advance_exact(amt) on a CursorRev
CursorRevExactStep(amt) ==
    State(pc, status, chunks,
          CursorState(CursorRev_advance_exact(loc.pos, amt), loc.pos,
                      loc.k + 1, loc.slice))

CursorRevExact ==
    /\ pc = "rev_moves" /\ status = "run" /\ loc.k < MaxAdvances
    /\ \E amt \in 1..MaxAmt : Apply(CursorRevExactStep(amt))

NextCursorRev == CursorRevMove \/ CursorRevExact

InitCursorRev ==
    /\ input \in Texts(CursorAlphabet, MaxCursorChars)
    /\ size = 1 /\ overlap = 0
    /\ delims = <<>> /\ skip_forward = <<>> /\ skip_back = <<>>
    /\ debug \in BOOLEAN
    /\ pc = "rev_moves" /\ status = "run" /\ chunks = <<>>
    /\ loc = CursorState(CursorRev_new(input), CursorRev_new(input), 0,
                         EmptyStr)

SpecCursorRev == InitCursorRev /\ [][NextCursorRev]_vars

(***************************************************************************)
(* The three chunkers side by side: one call of chunk() of any of them.    *)
(***************************************************************************)
InitChunkers == InitSW \/ InitRec \/ InitSSW

NextChunkers == NextSW \/ NextRec \/ NextSSW

SpecChunkers == InitChunkers /\ [][NextChunkers]_vars

(***************************************************************************)
(* Properties.                                                             *)
(***************************************************************************)
Done == pc = "done"

Returned == pc = "done" /\ status = "ok"

Last(q) == q[Len(q)]

\* C1: SnappingSlidingWindow.chunk terminates for every non-empty input and
\* every size, overlap and skip lists: the main loop and the two overlap loops
\* finish after finitely many steps.  chunk() is deterministic, so an iteration
\* that leaves the state as it found it repeats forever: termination requires
\* that the step of every call that has not ended changes the state.
C1_SswTerminates == (input # <<>> /\ pc # "done") => SswStep # Cur

\* C2: a non-empty input shorter than size yields a result whose last chunk
\* ends at the end of the input (the final partial buffer is emitted): the
\* call keeps making progress until it has ended, and when it returns Ok the
\* last chunk ends where the input ends.
C2_ShortInputEmitted ==
    (0 < Len(input) /\ Len(input) < size) =>
        /\ pc # "done" => SswStep # Cur
        /\ Returned => chunks # <<>> /\ Last(chunks).e = Len(input)

\* C3: every byte offset at which a chunker slices the input is a code point
\* boundary: chunk never panics on a slice, never returns Err(Utf8), and every
\* chunk starts and ends on a code point boundary.  Checked for SlidingWindow,
\* whose only slices are those of its chunks.
C3_NoSplitCodePoint ==
    /\ status \notin {"panic", "utf8"}
    /\ \A k \in 1..Len(chunks) :
          /\ is_char_boundary(trim(input), chunks[k].s)
          /\ is_char_boundary(trim(input), chunks[k].e)

\* The stitching loop of Recursive.chunk has started: loc holds the raw
\* splits and the chunks stitched so far.
Stitched == "out" \in DOMAIN loc

\* The byte offsets of the input a str covers.
Positions(r) == {p \in 0..Len(input) : r.s <= p /\ p < r.e}

\* The raw split before, and after, the one the stitched chunk c is built on.
PrevSplit(c) == loc.splits[c.i]

NextSplit(c) == loc.splits[c.i + 2]

\* C4: every chunk Recursive.chunk returns has length at most
\* size + 2 * overlap.
C4_RecChunkBound ==
    Returned /\ Stitched =>
        \A k \in 1..Len(chunks) : RLen(chunks[k]) <= size + 2 * overlap

\* C5: when a chunk is padded with overlap, the bytes taken from the previous
\* raw split are exactly its last min(overlap, len(prev)) bytes.
C5_PrevTail ==
    Stitched =>
        \A k \in 1..Len(loc.out) :
            LET c == loc.out[k] IN
            c.i > 0 =>
                c.prev = Range(PrevSplit(c).e - Min(overlap, RLen(PrevSplit(c))),
                               PrevSplit(c).e)

\* C6: the bytes taken from the next raw split are exactly its first
\* min(overlap, len(next)) bytes, for the first chunk as for every other chunk
\* that has a next split.
C6_NextHead ==
    Stitched =>
        \A k \in 1..Len(loc.out) :
            LET c == loc.out[k] IN
            c.i + 1 < Len(loc.splits) =>
                c.next = Range(NextSplit(c).s,
                               NextSplit(c).s + Min(overlap, RLen(NextSplit(c))))

\* C7: every chunk is laid out as [tail of the previous split][current raw
\* split][head of the next split]: the bytes it covers are those borrowed from
\* the previous split, those of the current split and those borrowed from the
\* next split, so it holds no byte of a piece that was dropped as unsplittable
\* (a byte that lies in no raw split).
C7_RecLayout ==
    Stitched =>
        \A k \in 1..Len(loc.out) :
            LET c == loc.out[k] IN
            /\ Positions(c.r) =
                  Positions(c.prev) \cup Positions(c.cur) \cup Positions(c.next)
            /\ \A p \in Positions(c.r) :
                  \E j \in 1..Len(loc.splits) : p \in Positions(loc.splits[j])

\* The chunks C8 states for a trimmed input of L bytes, from chunk k on.
RECURSIVE SwClaimedFrom(_, _, _, _)
SwClaimedFrom(L, sz, ov, k) ==
    IF (k + 1) * sz + ov <= L
    THEN <<Range(Max(0, k * sz - ov), (k + 1) * sz + ov)>>
         \o SwClaimedFrom(L, sz, ov, k + 1)
    ELSE <<Range(Max(0, k * sz - ov), L)>>

SwClaimed(L, sz, ov) ==
    IF L = 0 THEN <<>>
    ELSE IF L <= sz + ov THEN <<Range(0, L)>>
    ELSE SwClaimedFrom(L, sz, ov, 0)

\* C8: for every size > overlap >= 0 and every input with trimmed length L,
\* SlidingWindow.chunk returns no chunk if L = 0, the single chunk t if
\* L <= size + overlap, and otherwise the chunks
\* t[max(0, k*size - overlap) .. (k+1)*size + overlap) up to the first k with
\* (k+1)*size + overlap > L, whose chunk ends at L.
C8_SwChunks ==
    Done => /\ status = "ok"
            /\ chunks = SwClaimed(Len(trim(input)), size, overlap)

\* C9: SlidingWindow(30, 20) on the input of tests::sliding_window_works, which
\* has 139 characters, returns four chunks: chunks[0] covers input[0..50],
\* chunks[1] input[10..80], chunks[2] input[40..110] and the final chunk
\* input[70..139], truncated to the length of the input.
C9_SwTestChunks ==
    (Done /\ input = TestInput) =>
        /\ status = "ok"
        /\ Len(input) = 139
        /\ chunks = <<Range(0, 50), Range(10, 80), Range(40, 110),
                      Range(70, 139)>>

C9_Witness ==
    /\ Done /\ input = TestInput /\ size = 30 /\ overlap = 20
    /\ Len(chunks) = 4 /\ Last(chunks).e = Len(input)

\* C9 as the specification words it: on a 141-character input chunks[0]
\* covers input[0..50], chunks[1] input[10..80], chunks[2] input[40..110] and
\* the final chunk of the result covers input[70..141].
C9_SwChunksOf141 ==
    (Done /\ Len(input) = 141 /\ trim(input) = input) =>
        /\ status = "ok"
        /\ Len(chunks) >= 4
        /\ chunks[1] = Range(0, 50)
        /\ chunks[2] = Range(10, 80)
        /\ chunks[3] = Range(40, 110)
        /\ Last(chunks) = Range(70, 141)

\* The non-overlapping core of chunk k (1-based) of n: its part in
\* [(k-1)*size, k*size), and for the final chunk from (k-1)*size to its end.
SwCore(c, k, n, sz) ==
    IF k = n THEN Range(Max(c.s, (k - 1) * sz), c.e)
    ELSE Range(Max(c.s, (k - 1) * sz), Min(c.e, k * sz))

RECURSIVE SwCores(_, _, _, _)
SwCores(t, cs, k, sz) ==
    IF k > Len(cs) THEN <<>>
    ELSE Bytes(t, SwCore(cs[k], k, Len(cs), sz)) \o SwCores(t, cs, k + 1, sz)

\* C10: concatenating the non-overlapping cores of the chunks SlidingWindow.chunk
\* returns reconstructs the trimmed input exactly, for every input.
C10_SwRoundTrip ==
    Done => /\ status = "ok"
            /\ SwCores(trim(input), chunks, 1, size) = trim(input)

\* C11: SlidingWindow::new(size, overlap) returns ChunkerError::Config exactly
\* when overlap >= size and otherwise the chunker; a Config error arises only
\* at construction: when it is returned, chunk() has not run (no locals, no
\* chunks), and no call of chunk() ends with it.
C11_ConfigAtConstruction ==
    /\ pc # "sw_new" => (status = "config" <=> overlap >= size)
    /\ status = "config" => pc = "done" /\ loc = NoLoc /\ chunks = <<>>
    /\ pc \in {"sw_enter", "sw_loop"} => overlap < size /\ status = "run"

C11_Witness ==
    /\ pc = "done" /\ status = "config" /\ overlap = size /\ size > 0

\* C12: for every input, size and delimiter list, every raw split phase 1 of
\* Recursive produces (every element chunk_recursive pushes, and the pending
\* fragment it returns) has length <= size.
C12_RawSplitBound ==
    Stitched => \A k \in 1..Len(loc.splits) : RLen(loc.splits[k]) <= size

C12_Witness ==
    /\ Stitched /\ size >= 2 /\ Len(loc.splits) >= 2
    /\ RLen(loc.splits[1]) = size
    /\ RLen(Last(loc.splits)) < size

\* No delimiter of the list is the empty string and none occurs in the input.
NoDelimOccurs ==
    \A j \in 1..Len(delims) :
        /\ delims[j] # <<>>
        /\ \A i \in 0..Len(input) : ~MatchAt(input, i, Len(input), delims[j])

\* C13: when no delimiter of a delimiter list without the empty string occurs
\* in the input and size is smaller than the input length, Recursive.chunk
\* returns an empty result: the whole input is oversized at every level and
\* is dropped, not emitted.
C13_NoMatchEmpty ==
    (Done /\ NoDelimOccurs /\ size < Len(input)) =>
        status = "ok" /\ chunks = <<>>

C13_Witness ==
    /\ Done /\ NoDelimOccurs /\ size < Len(input)
    /\ Len(delims) = 2 /\ Stitched /\ loc.depth = 2

\* C14: on the input of tests::ssw_skips_back with skip_back = ["etc",
\* "foobar"], size 1 and overlap 1, SnappingSlidingWindow.chunk produces
\* exactly 2 chunks: the first starts at the start of the input and ends after
\* "...contains more." (byte 75; not after "etc." nor after "foobar."), the
\* second is the whole input.
C14_SkipsBack ==
    (Done /\ input = SswSkipsBackInput /\ skip_back = SswSkipsBackList) =>
        /\ status = "ok"
        /\ chunks = <<Range(0, 75), Range(0, Len(input))>>
        /\ Bytes(input, Range(61, 75)) =
              <<"c", "o", "n", "t", "a", "i", "n", "s", " ", "m", "o", "r", "e", ".">>

C14_Witness ==
    /\ Done /\ input = SswSkipsBackInput /\ skip_back = SswSkipsBackList
    /\ size = 1 /\ overlap = 1 /\ Len(chunks) = 2

\* The byte at offset d of the input is a delimiter that is immediately
\* preceded by a skip_back pattern or immediately followed by a skip_forward
\* pattern.
Suppressed(d) ==
    /\ 0 <= d /\ d < Len(input) /\ <<input[d + 1]>> = delimiter
    /\ \/ \E j \in 1..Len(skip_back) :
             /\ d - Len(skip_back[j]) >= 0
             /\ SubSeq(input, d - Len(skip_back[j]) + 1, d) = skip_back[j]
       \/ \E j \in 1..Len(skip_forward) :
             /\ d + 1 + Len(skip_forward[j]) <= Len(input)
             /\ SubSeq(input, d + 2, d + 1 + Len(skip_forward[j]))
                  = skip_forward[j]

\* The boundaries of the chunk that is about to be pushed: the end of its
\* core, the start of its lookback and the end of its lookahead.
SswBoundaries == {loc.chunk.e, SswFull.prev.s, SswFull.next.e}

\* C15: SnappingSlidingWindow.chunk never places a boundary at a suppressed
\* delimiter: no core end, no lookback start and no lookahead end inside the
\* input lies directly after a delimiter that is immediately preceded by a
\* skip_back pattern or immediately followed by a skip_forward pattern.
C15_NoSuppressedBoundary ==
    (pc = "ssw_emit" /\ SswFull.kind = "ok") =>
        \A b \in SswBoundaries :
            (0 < b /\ b < Len(input)) => ~Suppressed(b - 1)

\* The offset just past the n-th delimiter byte of the text t (0 for n = 0).
RECURSIVE NthDelimEnd(_, _, _)
NthDelimEnd(t, n, from) ==
    IF n = 0 THEN from
    ELSE LET next == CHOOSE i \in (from + 1)..Len(t) :
                        /\ <<t[i]>> = delimiter
                        /\ \A j \in (from + 1)..(i - 1) : <<t[j]>> # delimiter
         IN NthDelimEnd(t, n - 1, next)

\* Sentences a..b of the text t (1-based, each ending with its delimiter).
Sentences(t, a, b) == Range(NthDelimEnd(t, a - 1, 0), NthDelimEnd(t, b, 0))

\* C16: on the input of tests::ssw_works with size 1 and overlap 1,
\* SnappingSlidingWindow.chunk yields exactly 3 chunks: sentences 1-2, then
\* sentences 1-3, then sentences 2-4.
C16_SswWorks ==
    (Done /\ input = SswWorksInput) =>
        /\ status = "ok"
        /\ chunks = <<Sentences(input, 1, 2), Sentences(input, 1, 3),
                      Sentences(input, 2, 4)>>

C16_Witness ==
    /\ Done /\ input = SswWorksInput /\ size = 1 /\ overlap = 1
    /\ Len(chunks) = 3 /\ Last(chunks).e = Len(input)

\* The offsets just past a real sentence end of the input: a delimiter that
\* ends its run of delimiters and is not suppressed by a skip pattern.
RealBoundaries ==
    {b \in 1..Len(input) :
        /\ <<input[b]>> = delimiter
        /\ (b = Len(input) \/ <<input[b + 1]>> # delimiter)
        /\ ~Suppressed(b - 1)}

\* Where the first k real sentences after offset c end: the k-th real
\* boundary after c, the end of the input if there are fewer.
LookaheadEnd(c, k) ==
    LET after == {b \in RealBoundaries : b > c} IN
    IF k = 0 THEN c
    ELSE IF Cardinality(after) < k THEN Len(input)
    ELSE CHOOSE b \in after : Cardinality({x \in after : x <= b}) = k

\* Where the last k real sentences before offset c start: the k-th sentence
\* start counted back from c, the start of the input if there are fewer.
LookbackStart(c, k) ==
    LET starts == {0} \cup {b \in RealBoundaries : b < c} IN
    IF k = 0 THEN c
    ELSE IF Cardinality(starts) < k THEN 0
    ELSE CHOOSE b \in starts : Cardinality({x \in starts : x >= b}) = k

\* C17: whenever SnappingSlidingWindow.chunk closes a core, the lookback
\* context is exactly the last `overlap` real sentences before the core (all
\* preceding text if there are fewer) and the lookahead context is exactly the
\* first `overlap` real sentences after it (all following text if there are
\* fewer); a delimiter suppressed by a skip pattern is no sentence boundary.
C17_OverlapSentences ==
    (pc = "ssw_emit" /\ SswFull.kind = "ok") =>
        /\ SswFull.prev =
              Range(LookbackStart(loc.chunk.s, overlap), loc.chunk.s)
        /\ SswFull.next =
              Range(loc.chunk.e, LookaheadEnd(loc.chunk.e, overlap))

\* Every code point of the input is one byte long.
OneByte == \A i \in 1..Len(input) : is_char_boundary(input, i)

\* The byte at offset i of the input is a delimiter.
IsDelim(i) == 0 <= i /\ i < Len(input) /\ <<input[i + 1]>> = delimiter

\* The delimiter at offset i has no delimiter next to it.
IsSingleDelim(i) == IsDelim(i) /\ ~IsDelim(i - 1) /\ ~IsDelim(i + 1)

\* The offset of the first delimiter at or after offset i.
NextDelim(i) ==
    CHOOSE d \in i..Len(input) :
        IsDelim(d) /\ \A x \in i..(d - 1) : ~IsDelim(x)

\* The offset just past the maximal run of delimiters that holds offset d.
RunEnd(d) ==
    CHOOSE e \in (d + 1)..Len(input) :
        ~IsDelim(e) /\ \A x \in d..(e - 1) : IsDelim(x)

\* The offset of the first single delimiter at or after offset i.
NextSingleDelim(i) ==
    CHOOSE d \in i..Len(input) :
        IsSingleDelim(d) /\ \A x \in i..(d - 1) : ~IsSingleDelim(x)

EndsWithSingleDelim == Len(input) >= 1 /\ IsSingleDelim(Len(input) - 1)

SingleDelims == {d \in 0..(Len(input) - 1) : IsSingleDelim(d)}

\* The offset just past the k-th single delimiter from the start of the
\* input, the end of the input when there are fewer than k.
KthSingleEnd(k) ==
    IF Cardinality(SingleDelims) < k THEN Len(input)
    ELSE 1 + CHOOSE d \in SingleDelims :
                 Cardinality({x \in SingleDelims : x <= d}) = k

\* C19: on any buffer that ends with a single delimiter, the k-th advance() of
\* a fresh Cursor makes get_slice() the prefix that ends just past the k-th
\* delimiter that belongs to no run of two or more delimiters; once that is
\* the delimiter ending the buffer, get_slice() is the whole buffer and
\* further advance() calls change nothing (and none of the calls panics).
C19_CursorKthSlice ==
    (pc = "cursor" /\ EndsWithSingleDelim) =>
        /\ status # "panic"
        /\ loc.k >= 1 => loc.slice = Range(0, KthSingleEnd(loc.k))

\* The single delimiters before the one that ends the input.
InnerSingleDelims == SingleDelims \ {Len(input) - 1}

\* The offset just after the k-th single delimiter counted backwards from the
\* end of the input (the one ending it not counted), 0 when there are fewer.
KthSingleFromEnd(k) ==
    IF Cardinality(InnerSingleDelims) < k THEN 0
    ELSE 1 + CHOOSE d \in InnerSingleDelims :
                 Cardinality({x \in InnerSingleDelims : x >= d}) = k

\* C20: on any buffer that ends with a single delimiter, the k-th advance() of
\* a fresh CursorRev makes get_slice() the suffix that starts just after the
\* k-th single delimiter counted backwards (the delimiter ending the buffer
\* not counted, runs of two or more delimiters passed over); when no such
\* delimiter remains get_slice() is the whole buffer (and no call panics).
C20_CursorRevKthSlice ==
    (pc = "cursor_rev" /\ EndsWithSingleDelim) =>
        /\ status # "panic"
        /\ loc.k >= 1 =>
              loc.slice = Range(KthSingleFromEnd(loc.k), Len(input))

\* The chunks of q are in left-to-right order: neither the start offsets nor
\* the end offsets ever decrease from one chunk to the next.
InOrder(q) ==
    \A k \in 1..(Len(q) - 1) :
        q[k].s <= q[k + 1].s /\ q[k].e <= q[k + 1].e

C22_SnapsToDelimiters ==
    \A k \in 1..Len(chunks) :
        /\ chunks[k].s = 0 \/ IsDelim(chunks[k].s - 1)
        /\ chunks[k].e = Len(input) \/ IsDelim(chunks[k].e - 1)

\* How many steps of Recursive.chunk are left at most: phase 1, one iteration
\* of the stitching loop per raw split not yet visited, the filter.
RecRemaining ==
    CASE pc = "rec_enter" -> Len(Phase1(input, size, delims).pushed) + 2
      [] pc = "rec_stitch" -> Len(loc.splits) - loc.i + 1
      [] pc = "rec_finish" -> 1
      [] OTHER -> 0

\* C23: Recursive.chunk terminates for every input and every delimiter list,
\* and the nesting depth of chunk_recursive calls never exceeds the length of
\* the delimiter list plus one (the call with idx = len(delims) returns at
\* once).  Every step of chunk() lowers the number of steps left, which never
\* falls below zero; phase 1 is evaluated to its end within its step; the
\* largest idx a call was made with is at most len(delims), so that at most
\* len(delims) + 1 calls are nested; and the stitching loop only runs with an
\* index inside the raw splits.
C23_RecTerminates ==
    [][/\ RecRemaining' < RecRemaining
       /\ RecRemaining' >= 0
       /\ pc' # "done" => RecRemaining' > 0
       /\ Stitched' => loc'.depth <= Len(delims)
       /\ pc' = "rec_stitch" => loc'.i < Len(loc'.splits)]_vars

C23_Witness ==
    /\ Returned /\ Stitched /\ Len(delims) = 3 /\ loc.depth = 3
    /\ Len(loc.splits) >= 2 /\ loc.i = Len(loc.splits)

\* C24: for every non-empty buffer and every sequence of advance() calls, the
\* forward Cursor position stays <= len(buf) - 1, so the debug assertion in
\* Cursor::advance never fails and every slice buf[..pos] taken from it is in
\* range; this includes buffers that end with a run of repeated delimiters or
\* with a run followed by one character.
C24_CursorInRange ==
    (pc = "cursor" /\ input # <<>>) =>
        /\ status # "panic"
        /\ loc.pos <= Len(input) - 1

\* C25: for every buffer and every sequence of advance() and advance_exact()
\* calls, the CursorRev position never goes below 0 (no unsigned underflow)
\* and stays <= len(buf) - 1 (0 on the empty buffer), so the debug assertion
\* in CursorRev::advance never fails; this includes buffers with a run of
\* repeated delimiters near their start.
C25_CursorRevInRange ==
    pc = "rev_moves" =>
        /\ status # "panic"
        /\ 0 <= loc.pos
        /\ loc.pos <= Max(Len(input) - 1, 0)

\* The raw split r holds the delimiter ";" before its last byte: it was built
\* from more than one piece of the top level.
SpansPieces(r) ==
    \E p \in r.s..(r.e - 2) : MatchAt(input, p, r.e - 1, <<";">>)

\* C26: in phase 1 of Recursive, whenever chunk_recursive appends a piece to a
\* non-empty buffer, the piece starts at exactly the byte where the buffer
\* ends, so the widened buffer is one contiguous range inside the input; this
\* holds across recursion levels, also after a pending fragment was adopted
\* from a finer level and after an oversized piece was dropped.
C26_RecContiguous ==
    /\ pc = "rec_enter" => Phase1(input, size, delims).contig
    /\ Stitched =>
          /\ loc.contig
          /\ \A k \in 1..Len(loc.splits) :
                0 <= loc.splits[k].s /\ loc.splits[k].e <= Len(input)

C26_Witness ==
    /\ Stitched /\ loc.contig /\ loc.depth >= 1
    /\ delims[1] = <<";">>
    /\ Len(loc.splits) >= 2
    /\ \E k \in 2..Len(loc.splits) : SpansPieces(loc.splits[k])

\* C27: SnappingSlidingWindow.chunk on the empty input returns an empty
\* sequence of chunks and no error, without an out-of-range slice.
C27_EmptyInput ==
    (input = <<>> /\ pc # "ssw_enter") =>
        pc = "done" /\ status = "ok" /\ chunks = <<>>

\* C28: for every size > overlap >= 0 and every input, every chunk emitted by
\* SlidingWindow.chunk is non-empty and contains at least one byte that the
\* preceding chunk does not contain (no empty and no fully redundant final
\* chunk, also when the trimmed length is a multiple of size or equals
\* k*size + overlap).
C28_SwNoRedundantChunk ==
    \A k \in 1..Len(chunks) :
        /\ RLen(chunks[k]) > 0
        /\ k > 1 => Positions(chunks[k]) \ Positions(chunks[k - 1]) # {}

\* The byte offsets the strs of the sequence q cover.
Covered(q) == UNION {Positions(q[k]) : k \in 1..Len(q)}

\* The bytes of the strs of q, one after the other.
RECURSIVE Joined(_, _)
Joined(q, k) ==
    IF k > Len(q) THEN <<>> ELSE Bytes(input, q[k]) \o Joined(q, k + 1)

\* C29: the raw splits of phase 1 of Recursive, in the order produced, are
\* pairwise disjoint ranges of the input in increasing offset order, and
\* together they cover every byte of the input except the bytes of pieces
\* dropped as oversized at the last delimiter; when nothing is dropped (for
\* instance the delimiter list ends with the empty string and size >= 1 on
\* single-byte text) their concatenation equals the input.
C29_RawSplitsPartition ==
    Stitched =>
        /\ \A k \in 1..Len(loc.splits) :
              /\ 0 <= loc.splits[k].s
              /\ loc.splits[k].s < loc.splits[k].e
              /\ loc.splits[k].e <= Len(input)
        /\ \A k \in 1..(Len(loc.splits) - 1) :
              loc.splits[k].e <= loc.splits[k + 1].s
        /\ Covered(loc.splits) \cup Covered(loc.dropped) = Positions(Range(0, Len(input)))
        /\ Covered(loc.splits) \cap Covered(loc.dropped) = {}
        /\ loc.dropped = <<>> => Joined(loc.splits, 1) = input
        /\ (OneByte /\ Last(delims) = <<>>) => loc.dropped = <<>>

C29_Witness ==
    /\ Stitched /\ Len(loc.splits) >= 2
    /\ loc.dropped # <<>> /\ Covered(loc.dropped) # {}
    /\ loc.splits[1].e < loc.splits[2].s

\* C30: whenever SnappingSlidingWindow.chunk returns, every byte of the input
\* lies in at least one emitted chunk: the first core starts at offset 0,
\* each later core starts at the offset where the previous core ended (the
\* core that follows a closed core starts at loc.start), and the last emitted
\* chunk reaches the end of the input.
C30_SswCoversInput ==
    /\ (pc \in {"ssw_main", "ssw_prev", "ssw_next", "ssw_emit"}
          /\ chunks = <<>>) => loc.chunk.s = 0
    /\ pc = "ssw_emit" => loc.start = loc.chunk.e
    /\ Returned =>
          /\ chunks # <<>>
          /\ Covered(chunks) = Positions(Range(0, Len(input)))
          /\ Last(chunks).e = Len(input)

C30_Witness ==
    /\ Returned /\ "cursor" \in DOMAIN loc
    /\ Len(chunks) >= 2
    /\ chunks[1].e < Len(input)
    /\ Last(chunks).s > 0
    /\ Last(chunks).e = Len(input)

====
